---- MODULE Spec2Model ----
(***************************************************************************)
(* The /api/reliability route: proxy branch, form parsing, and the mock    *)
(* reliability pass: frame sampling, per-frame ROI occlusion by greedy     *)
(* rectangle merge, dwell tracker, early and standard alert loops,         *)
(* reliability score, response.                                            *)
(*                                                                         *)
(* Numbers.  The route computes in IEEE doubles.  The model computes in    *)
(* exact rationals <<n, d>> (d > 0, lowest terms).  Coordinates are whole  *)
(* tenths of the frame.  fps is drawn from values whose period 1/fps is a  *)
(* whole number of seconds, where the doubles are exact, and from fps = 5, *)
(* where a sum of periods carries the sign of the double's rounding error  *)
(* (DoubleSum).  On the inputs of Spec, SpecSteady, SpecRoute and          *)
(* SpecScore the doubles of the route give the same rounded percentages,   *)
(* rounded durations, timestamps, comparisons and scores as the model.  In *)
(* SpecGeom a percentage such as 200/3 differs from its double by rounding *)
(* error only.                                                             *)
(*                                                                         *)
(* Further specifications.  SpecClient is the uploader component that      *)
(* draws the ROI from clicked points.  SpecPair runs two invocations of the*)
(* handler, interleaved step by step.  SpecEdge is the pass over frames    *)
(* occluded just above a threshold, in thousandths of the frame.           *)
(***************************************************************************)
EXTENDS Integers, Sequences, FiniteSets, TLC

VARIABLES
    request,              \* the request and its surroundings: form fields, backend
    pc,                   \* position in the handler
    i,                    \* index of the running loop (0-based, as in the code)
    fps,                  \* frames per second (rational)
    roi,                  \* <<x1, y1, x2, y2>> in tenths of the frame
    sampledFrames,        \* number of frames to sample
    frames,               \* sequence of [timestamp, personBoxes, blurScore]
    occlusionPcts,        \* one percentage per frame (rational)
    occlusionPctAvg,
    occlusionPctMax,
    dwellSMax,
    currentDwell,
    blurScoreAvg,
    flipAtS,
    occlusion30Duration,
    cumulativeDwell,
    alertFrameIndex,
    standardAiAlertAtS,
    occlusion60Duration,
    reliabilityScore,
    reliabilityLabel,
    response,             \* the JSON body returned, or NoResponse
    roiPoints,            \* the points clicked on the uploader's canvas
    suspended             \* the locals of a second invocation of the handler, not running

vars == <<request, pc, i, fps, roi, sampledFrames, frames, occlusionPcts,
          occlusionPctAvg, occlusionPctMax, dwellSMax, currentDwell,
          blurScoreAvg, flipAtS, occlusion30Duration, cumulativeDwell,
          alertFrameIndex, standardAiAlertAtS, occlusion60Duration,
          reliabilityScore, reliabilityLabel, response, roiPoints,
          suspended>>

-----------------------------------------------------------------------------
(* Bounds *)

\* largest file size (MB) a request of the model carries
MaxFileMB == 5

\* most boxes in one frame of the geometry specification
MaxBoxes == 3

\* the geometry specification draws box corners from 0..GridX by 0..GridY
GridX == 3

GridY == 2

\* the scorer specification draws dwell maxima of 0..MaxDwellHalves half seconds
MaxDwellHalves == 12

\* the scorer specification draws peak occlusions of 100 * k / PctSteps percent
PctSteps == 20

\* the scorer specification draws blur averages of 0..MaxBlurSteps times 300
MaxBlurSteps == 12

-----------------------------------------------------------------------------
(* Number arithmetic: exact rationals *)

Abs(n) == IF n < 0 THEN -n ELSE n

RECURSIVE GCD(_, _)
GCD(a, b) == IF b = 0 THEN a ELSE GCD(b, a % b)

Rat(n, d) ==
    LET s == IF d < 0 THEN -1 ELSE 1
        g == GCD(Abs(n), Abs(d))
    IN  <<(s * n) \div g, (s * d) \div g>>

Num(k) == <<k, 1>>

Zero == Num(0)

RAdd(a, b) == Rat(a[1] * b[2] + b[1] * a[2], a[2] * b[2])

RSub(a, b) == Rat(a[1] * b[2] - b[1] * a[2], a[2] * b[2])

RMul(a, b) == Rat(a[1] * b[1], a[2] * b[2])

RDiv(a, b) == Rat(a[1] * b[2], a[2] * b[1])

RLt(a, b) == a[1] * b[2] < b[1] * a[2]

RLeq(a, b) == a[1] * b[2] <= b[1] * a[2]

RGt(a, b) == RLt(b, a)

RGeq(a, b) == RLeq(b, a)

MathMin(a, b) == IF RLt(b, a) THEN b ELSE a

MathMax(a, b) == IF RLt(a, b) THEN b ELSE a

MathFloor(a) == a[1] \div a[2]

\* Math.ceil
MathCeil(a) == -((-a[1]) \div a[2])

\* Math.round: nearest integer, halves towards +infinity
MathRound(a) == MathFloor(RAdd(a, <<1, 2>>))

\* Math.round(x * 10) / 10
Round1(a) == Rat(MathRound(RMul(a, Num(10))), 10)

IMin(a, b) == IF b < a THEN b ELSE a

IMax(a, b) == IF a < b THEN b ELSE a

-----------------------------------------------------------------------------
(* Geometry: occlusion of the ROI by one frame's boxes *)

\* [0, 0, 1, 1], the full frame
DEFAULT_ROI == <<0, 0, 10, 10>>

Box(x1, y1, x2, y2) == [x1 |-> x1, y1 |-> y1, x2 |-> x2, y2 |-> y2]

BoxArea(b) == (b.x2 - b.x1) * (b.y2 - b.y1)

RoiArea(r) == (r[3] - r[1]) * (r[4] - r[2])

\* the box taken whole, its part outside the ROI included
Intersect_unclipped(box, r) == box

\* the box clipped to the ROI
Intersect(box, r) ==
    Box(IMax(box.x1, r[1]), IMax(box.y1, r[2]),
        IMin(box.x2, r[3]), IMin(box.y2, r[4]))

NonEmpty(b) == b.x2 > b.x1 /\ b.y2 > b.y1

\* the clipped boxes of positive area, in list order
RECURSIVE Intersections(_, _)
Intersections(personBoxes, r) ==
    IF personBoxes = <<>> THEN <<>>
    ELSE LET c == Intersect(Head(personBoxes), r)
             rest == Intersections(Tail(personBoxes), r)
         IN  IF NonEmpty(c) THEN <<c>> \o rest ELSE rest

\* the mutant asks for a common interior: touching does not count
Overlaps_strict(intersection, m) ==
    ~(intersection.x2 <= m.x1 \/ intersection.x1 >= m.x2 \/
      intersection.y2 <= m.y1 \/ intersection.y1 >= m.y2)

Overlaps(intersection, m) ==
    ~(intersection.x2 < m.x1 \/ intersection.x1 > m.x2 \/
      intersection.y2 < m.y1 \/ intersection.y1 > m.y2)

\* the mutant folds the intersection in without growing the merged box
Expand_keep(m, intersection) == m

Expand(m, intersection) ==
    Box(IMin(m.x1, intersection.x1), IMin(m.y1, intersection.y1),
        IMax(m.x2, intersection.x2), IMax(m.y2, intersection.y2))

\* one pass of the inner for loop: fold into the first overlapping group, or push
MergeOne(merged, intersection) ==
    LET hits == {k \in 1..Len(merged) : Overlaps(intersection, merged[k])}
    IN  IF hits = {} THEN Append(merged, intersection)
        ELSE LET k == CHOOSE h \in hits : \A g \in hits : h <= g
             IN  [merged EXCEPT ![k] = Expand(merged[k], intersection)]

RECURSIVE MergeAll(_, _)
MergeAll(merged, intersections) ==
    IF intersections = <<>> THEN merged
    ELSE MergeAll(MergeOne(merged, Head(intersections)), Tail(intersections))

RECURSIVE SumAreas(_)
SumAreas(boxes) ==
    IF boxes = <<>> THEN 0 ELSE BoxArea(Head(boxes)) + SumAreas(Tail(boxes))

UnionArea(personBoxes, r) == SumAreas(MergeAll(<<>>, Intersections(personBoxes, r)))

\* Math.max(0, x): the upper clamp left out
ClampPct_noupper(x) == MathMax(Zero, x)

\* Math.min(100, Math.max(0, x))
ClampPct(x) == MathMin(Num(100), MathMax(Zero, x))

\* a ROI without area counted as fully occluded
OcclusionPct_full(personBoxes, r) ==
    IF RoiArea(r) <= 0 THEN Num(100)
    ELSE ClampPct(RMul(Rat(UnionArea(personBoxes, r), RoiArea(r)), Num(100)))

OcclusionPct(personBoxes, r) ==
    IF RoiArea(r) <= 0 THEN Zero
    ELSE ClampPct(RMul(Rat(UnionArea(personBoxes, r), RoiArea(r)), Num(100)))

-----------------------------------------------------------------------------
(* Dwell tracker *)

\* 1 / fps
FramePeriod(f) == RDiv(Num(1), f)

\* a stand-in for the rounding error of a sum of doubles: the doubles of the
\* route are within 4e-14 of the rationals, and every gap between two values
\* the route compares or rounds apart is far wider than Ulp
Ulp == <<1, 1000>>

\* sign of (the double reached by n additions of the double 1/5 to 0) - n/5,
\* for n up to 100 additions (20 seconds at fps = 5)
FifthsError(n) ==
    IF n \in 1..4 \/ n \in 13..44 THEN 1
    ELSE IF n \in {5, 45} THEN 0
    ELSE -1

\* the double reached by n additions of 1 / f to 0: exact when the period is
\* a whole number of seconds, off by a rounding error when f = 5
DoubleSum(f, n) ==
    IF f = Num(5)
    THEN RAdd(Rat(n, 5), RMul(Num(FifthsError(n)), Ulp))
    ELSE RMul(Num(n), FramePeriod(f))

\* dur += 1 / fps, where dur is the double of some number of such additions
Accumulate(dur, f) == DoubleSum(f, MathRound(RMul(dur, f)) + 1)

\* pct > 0
DwellOccluded_any(pct) == RGt(pct, Zero)

DwellOccluded(pct) == RGt(pct, Num(10))

\* dwellSMax = currentDwell
DwellMaxUpdate_overwrite(dMax, cur) == cur

DwellMaxUpdate(dMax, cur) == MathMax(dMax, cur)

\* the else branch left out: the run is kept across an unoccluded sample
DwellElse_keep(cur) == cur

\* the else branch: currentDwell = 0
DwellElse(cur) == Zero

-----------------------------------------------------------------------------
(* Early alert loop: occlusion > 30% for at least 0.5s, or dwell > 2s *)

EarlyOcclusionHigh(pct) == RGt(pct, Num(30))

EarlySustainTrips(d) == RGeq(d, <<1, 2>>)

EarlyDwellOccluded(pct) == RGt(pct, Num(10))

\* cumulativeDwell >= 2
EarlyDwellTrips_geq(d) == RGeq(d, Num(2))

EarlyDwellTrips(d) == RGt(d, Num(2))

\* the guard flipAtS === 0 / standardAiAlertAtS === 0
\* the guard left out: a later frame overwrites the trip time
Untripped_never(t) == TRUE

Untripped(t) == t = Zero

-----------------------------------------------------------------------------
(* Standard alert loop: occlusion > 60% for 2s, or dwell >= 4s *)

StandardOcclusionHigh(pct) == RGt(pct, Num(60))

\* the mutant trips on the first frame above the threshold
StandardSustainTrips_first(d) == RGt(d, Zero)

\* occlusion60Duration > 2
StandardSustainTrips_gt(d) == RGt(d, Num(2))

StandardSustainTrips(d) == RGeq(d, Num(2))

StandardDwellOccluded(pct) == RGt(pct, Num(10))

\* cumulativeDwell >= 2, the early threshold
StandardDwellTrips_low(d) == RGeq(d, Num(2))

StandardDwellTrips(d) == RGeq(d, Num(4))

\* the mutant lets the standard loop go on from the early loop's dwell
StandardDwellInit_carry(cur) == cur

\* cumulativeDwell = 0 before the standard loop
StandardDwellInit(cur) == Zero

-----------------------------------------------------------------------------
(* Reliability score *)

blurMax == 3000

\* blurScoreAvg / blurMax without Math.min(1, ...)
BlurNormalized_uncapped(b) ==
    IF RGt(b, Zero) THEN RDiv(b, Num(blurMax)) ELSE Zero

BlurNormalized(b) ==
    IF RGt(b, Zero) THEN MathMin(Num(1), RDiv(b, Num(blurMax))) ELSE Zero

\* blurTerm = blurNormalized
BlurTerm_raw(b) == BlurNormalized(b)

BlurTerm(b) == RSub(Num(1), BlurNormalized(b))

\* the occlusion term counted as 0.6 * (1 - occlusionPctMax / 100)
Risk_inverted(oMax, dMax, b) ==
    RAdd(RAdd(RMul(<<6, 10>>, RSub(Num(1), RDiv(oMax, Num(100)))),
              RMul(<<3, 10>>, MathMin(RDiv(dMax, Num(5)), Num(1)))),
         RMul(<<1, 10>>, BlurTerm(b)))

Risk(oMax, dMax, b) ==
    RAdd(RAdd(RMul(<<6, 10>>, RDiv(oMax, Num(100))),
              RMul(<<3, 10>>, MathMin(RDiv(dMax, Num(5)), Num(1)))),
         RMul(<<1, 10>>, BlurTerm(b)))

ReliabilityScore(oMax, dMax, b) ==
    IMax(0, IMin(100, MathRound(RMul(Num(100), RSub(Num(1), Risk(oMax, dMax, b))))))

\* reliabilityScore <= 70
ReliabilityLabel_leq(score) == IF score <= 70 THEN "NOT RELIABLE" ELSE "RELIABLE"

ReliabilityLabel(score) == IF score < 70 THEN "NOT RELIABLE" ELSE "RELIABLE"

\* The older copy of the route

\* the mutant leaves out Math.max(0, ...)
BlurTermOlder_unclamped(b) == RSub(Num(1), RDiv(b, Num(3000)))

\* blurTerm = Math.max(0, 1 - (blurScoreAvg / 3000))
BlurTermOlder(b) == MathMax(Zero, RSub(Num(1), RDiv(b, Num(3000))))

RiskOlder(oMax, dMax, b) ==
    RAdd(RAdd(RMul(<<6, 10>>, RDiv(oMax, Num(100))),
              RMul(<<3, 10>>, MathMin(RDiv(dMax, Num(5)), Num(1)))),
         RMul(<<1, 10>>, BlurTermOlder(b)))

ReliabilityScoreOlder(oMax, dMax, b) ==
    IMax(0, IMin(100, MathRound(RMul(Num(100), RSub(Num(1), RiskOlder(oMax, dMax, b))))))

ReliabilityLabelOlder(score) == IF score < 70 THEN "NOT RELIABLE" ELSE "RELIABLE"

-----------------------------------------------------------------------------
(* Aggregates over the series *)

\* the sum and the maximum of s[a..b], by halves: the recursion stays
\* shallow on the 100 frames of a 20 s video at fps = 5
RECURSIVE SumRange(_, _, _)
SumRange(s, a, b) ==
    IF a > b THEN Zero
    ELSE IF a = b THEN s[a]
    ELSE LET h == (a + b) \div 2
         IN  RAdd(SumRange(s, a, h), SumRange(s, h + 1, b))

SumSeq(s) == SumRange(s, 1, Len(s))

RECURSIVE MaxRange(_, _, _)
MaxRange(s, a, b) ==
    IF a = b THEN s[a]
    ELSE LET h == (a + b) \div 2
         IN  MathMax(MaxRange(s, a, h), MaxRange(s, h + 1, b))

\* Math.max(...occlusionPcts), on a non-empty series
MaxSeq(s) == MaxRange(s, 1, Len(s))

Mean(s) == RDiv(SumSeq(s), Num(Len(s)))

BlurScores(fs) == [k \in 1..Len(fs) |-> Num(fs[k].blurScore)]

-----------------------------------------------------------------------------
(* Inputs *)

\* fps values of the model: the frame period is 4s, 2s, 1s
FpsSet == {<<1, 4>>, <<1, 2>>, <<1, 1>>}

FileSizesMB == {1, MaxFileMB}

\* Math.max(5, Math.min(20, fileSize / (1024 * 1024)))
EstimatedDuration(fileSizeMB) == IMax(5, IMin(20, fileSizeMB))

SampledFrames(fileSizeMB, f) == MathCeil(RMul(Num(EstimatedDuration(fileSizeMB)), f))

\* what the detector can report for one frame of the pass: box lists
\* covering 0, 0, 10, 30, 60 and 100 percent of DEFAULT_ROI
FrameMenu ==
    { [personBoxes |-> <<>>, blurScore |-> 607],
      [personBoxes |-> <<Box(10, 0, 12, 10)>>, blurScore |-> 2407],
      [personBoxes |-> <<Box(0, 0, 1, 10)>>, blurScore |-> 907],
      [personBoxes |-> <<Box(0, 0, 3, 10)>>, blurScore |-> 1507],
      [personBoxes |-> <<Box(0, 0, 4, 10), Box(2, 0, 6, 10)>>, blurScore |-> 2107],
      [personBoxes |-> <<Box(-2, -2, 12, 12)>>, blurScore |-> 1207] }

\* the ROI of a request: the default, or a user-drawn left half of the frame
RoiSet == {DEFAULT_ROI, <<0, 0, 5, 10>>}

NoResponse == [status |-> 0]

\* not a number: 0 / 0, Number("abc"); and Math.max() of no arguments
NaN == <<0, 0>>

NegInfinity == <<-1, 0>>

IsNaN(x) == x = NaN

\* Number(fpsParam) on the fps strings of the model
Number(str) ==
    CASE str = "0.25" -> <<1, 4>>
      [] str = "0.5" -> <<1, 2>>
      [] str = "1" -> Num(1)
      [] str = "0" -> Zero
      [] str = "-1" -> Num(-1)
      [] str = "abc" -> NaN

\* fps = fpsParam ? Number(fpsParam) : 5; a missing field is ""
ParseFps(fpsParam) == IF fpsParam # "" THEN Number(fpsParam) ELSE Num(5)

\* JSON.parse(roiParam) on the roi strings of the model, numbers in tenths;
\* <<>> when JSON.parse throws
JsonParse(str) ==
    CASE str = "[0,0,1,1]" -> <<0, 0, 10, 10>>
      [] str = "[0,0,0.5,1]" -> <<0, 0, 5, 10>>
      [] str = "[0,0,2,1]" -> <<0, 0, 20, 10>>
      [] str = "[0,0,1]" -> <<0, 0, 10>>
      [] str = "oops" -> <<>>

\* the roi is the parsed array when it has four entries, else DEFAULT_ROI
ParseRoi(roiParam) ==
    IF roiParam # "" /\ Len(JsonParse(roiParam)) = 4
    THEN JsonParse(roiParam)
    ELSE DEFAULT_ROI

\* the pass is applied outside a request
NoRequest ==
    [backendUrl |-> FALSE, backend |-> "none", video |-> FALSE, fileSizeMB |-> 0,
     fpsParam |-> "", roiParam |-> "", bodyUsed |-> FALSE, backendStatus |-> 0]

-----------------------------------------------------------------------------
(* The pass *)

\* one invocation of the handler, no other being in progress
NoActivation == <<>>

Blank ==
    /\ i = 0
    /\ occlusionPcts = <<>>
    /\ occlusionPctAvg = Zero
    /\ occlusionPctMax = Zero
    /\ dwellSMax = Zero
    /\ currentDwell = Zero
    /\ blurScoreAvg = Zero
    /\ flipAtS = Zero
    /\ occlusion30Duration = Zero
    /\ cumulativeDwell = Zero
    /\ alertFrameIndex = -1
    /\ standardAiAlertAtS = Zero
    /\ occlusion60Duration = Zero
    /\ reliabilityScore = 0
    /\ reliabilityLabel = ""
    /\ response = NoResponse
    /\ roiPoints = <<>>

\* the handler has read the form of a request with a video, an fps and a
\* roi field, no backend being configured
Init ==
    /\ pc = "sample"
    /\ fps \in FpsSet
    /\ roi \in RoiSet
    /\ \E fileSizeMB \in FileSizesMB :
          /\ sampledFrames = SampledFrames(fileSizeMB, fps)
          /\ \E fp \in {"0.25", "0.5", "1"}, rp \in {"[0,0,1,1]", "[0,0,0.5,1]"} :
                /\ fps = ParseFps(fp)
                /\ roi = ParseRoi(rp)
                /\ request = [backendUrl |-> FALSE, backend |-> "none",
                              video |-> TRUE, fileSizeMB |-> fileSizeMB,
                              fpsParam |-> fp, roiParam |-> rp, bodyUsed |-> TRUE,
                              backendStatus |-> 0]
    /\ frames = <<>>
    /\ Blank
    /\ suspended = NoActivation

\* for (let i = 0; i < sampledFrames; i++) { ... frames.push(...) }
SampleFrame ==
    /\ pc = "sample"
    /\ \E m \in FrameMenu :
          frames' = Append(frames, [timestamp |-> RDiv(Num(i), fps),
                                    personBoxes |-> m.personBoxes,
                                    blurScore |-> m.blurScore])
    /\ IF i + 1 < sampledFrames
       THEN i' = i + 1 /\ pc' = pc
       ELSE i' = 0 /\ pc' = "occlusion"
    /\ UNCHANGED <<suspended, roiPoints, request, fps, roi, sampledFrames, occlusionPcts, occlusionPctAvg,
                   occlusionPctMax, dwellSMax, currentDwell, blurScoreAvg,
                   flipAtS, occlusion30Duration, cumulativeDwell,
                   alertFrameIndex, standardAiAlertAtS, occlusion60Duration,
                   reliabilityScore, reliabilityLabel, response>>

\* frames.forEach(frame => { ... occlusionPcts.push(occlusionPct) }), then avg and max
ComputeOcclusion ==
    /\ pc = "occlusion"
    /\ occlusionPcts' = Append(occlusionPcts, OcclusionPct(frames[i + 1].personBoxes, roi))
    /\ IF i + 1 < Len(frames)
       THEN /\ i' = i + 1
            /\ pc' = pc
            /\ UNCHANGED <<occlusionPctAvg, occlusionPctMax>>
       ELSE /\ i' = 0
            /\ pc' = "dwell"
            /\ occlusionPctAvg' = Mean(occlusionPcts')
            /\ occlusionPctMax' = MaxSeq(occlusionPcts')
    /\ UNCHANGED <<suspended, roiPoints, request, fps, roi, sampledFrames, frames, dwellSMax, currentDwell,
                   blurScoreAvg, flipAtS, occlusion30Duration, cumulativeDwell,
                   alertFrameIndex, standardAiAlertAtS, occlusion60Duration,
                   reliabilityScore, reliabilityLabel, response>>

\* occlusionPcts.forEach((pct, idx) => { ... }), then blurScoreAvg
DwellStep ==
    /\ pc = "dwell"
    /\ LET pct == occlusionPcts[i + 1]
           cur == Accumulate(currentDwell, fps)
       IN  IF DwellOccluded(pct)
           THEN /\ currentDwell' = cur
                /\ dwellSMax' = DwellMaxUpdate(dwellSMax, cur)
           ELSE /\ currentDwell' = DwellElse(currentDwell)
                /\ dwellSMax' = dwellSMax
    /\ IF i + 1 < Len(occlusionPcts)
       THEN i' = i + 1 /\ pc' = pc /\ UNCHANGED blurScoreAvg
       ELSE i' = 0 /\ pc' = "early" /\ blurScoreAvg' = Mean(BlurScores(frames))
    /\ UNCHANGED <<suspended, roiPoints, request, fps, roi, sampledFrames, frames, occlusionPcts,
                   occlusionPctAvg, occlusionPctMax, flipAtS,
                   occlusion30Duration, cumulativeDwell, alertFrameIndex,
                   standardAiAlertAtS, occlusion60Duration, reliabilityScore,
                   reliabilityLabel, response>>

\* one iteration of the flip_at_s loop; after the last one, cumulativeDwell = 0
EarlyStep ==
    /\ pc = "early"
    /\ LET pct == occlusionPcts[i + 1]
           frameTime == frames[i + 1].timestamp
           high == EarlyOcclusionHigh(pct)
           o30 == IF high THEN Accumulate(occlusion30Duration, fps) ELSE Zero
           trip1 == high /\ EarlySustainTrips(o30) /\ Untripped(flipAtS)
           flip1 == IF trip1 THEN frameTime ELSE flipAtS
           occ == EarlyDwellOccluded(pct)
           cd == IF occ THEN Accumulate(cumulativeDwell, fps) ELSE Zero
           trip2 == occ /\ EarlyDwellTrips(cd) /\ Untripped(flip1)
           last == ~(i + 1 < Len(occlusionPcts))
       IN  /\ occlusion30Duration' = o30
           /\ flipAtS' = IF trip2 THEN frameTime ELSE flip1
           /\ alertFrameIndex' = IF trip1 \/ trip2 THEN i ELSE alertFrameIndex
           /\ cumulativeDwell' = IF last THEN StandardDwellInit(cd) ELSE cd
           /\ IF last THEN i' = 0 /\ pc' = "standard" ELSE i' = i + 1 /\ pc' = pc
    /\ UNCHANGED <<suspended, roiPoints, request, fps, roi, sampledFrames, frames, occlusionPcts,
                   occlusionPctAvg, occlusionPctMax, dwellSMax, currentDwell,
                   blurScoreAvg, standardAiAlertAtS, occlusion60Duration,
                   reliabilityScore, reliabilityLabel, response>>

\* one iteration of the standard_ai_alert_at_s loop
StandardStep ==
    /\ pc = "standard"
    /\ LET pct == occlusionPcts[i + 1]
           frameTime == frames[i + 1].timestamp
           high == StandardOcclusionHigh(pct)
           o60 == IF high THEN Accumulate(occlusion60Duration, fps) ELSE Zero
           trip1 == high /\ StandardSustainTrips(o60) /\ Untripped(standardAiAlertAtS)
           std1 == IF trip1 THEN frameTime ELSE standardAiAlertAtS
           occ == StandardDwellOccluded(pct)
           cd == IF occ THEN Accumulate(cumulativeDwell, fps) ELSE Zero
           trip2 == occ /\ StandardDwellTrips(cd) /\ Untripped(std1)
       IN  /\ occlusion60Duration' = o60
           /\ standardAiAlertAtS' = IF trip2 THEN frameTime ELSE std1
           /\ cumulativeDwell' = cd
    /\ IF i + 1 < Len(occlusionPcts)
       THEN i' = i + 1 /\ pc' = pc
       ELSE i' = 0 /\ pc' = "score"
    /\ UNCHANGED <<suspended, roiPoints, request, fps, roi, sampledFrames, frames, occlusionPcts,
                   occlusionPctAvg, occlusionPctMax, dwellSMax, currentDwell,
                   blurScoreAvg, flipAtS, occlusion30Duration, alertFrameIndex,
                   reliabilityScore, reliabilityLabel, response>>

\* reliabilityScore and reliabilityLabel
Score ==
    /\ pc = "score"
    /\ reliabilityScore' = ReliabilityScore(occlusionPctMax, dwellSMax, blurScoreAvg)
    /\ reliabilityLabel' = ReliabilityLabel(reliabilityScore')
    /\ pc' = "respond"
    /\ UNCHANGED <<suspended, roiPoints, request, i, fps, roi, sampledFrames, frames, occlusionPcts,
                   occlusionPctAvg, occlusionPctMax, dwellSMax, currentDwell,
                   blurScoreAvg, flipAtS, occlusion30Duration, cumulativeDwell,
                   alertFrameIndex, standardAiAlertAtS, occlusion60Duration,
                   response>>

\* const response: ReliabilityResponse = { ... }; return NextResponse.json(response)
Respond ==
    /\ pc = "respond"
    /\ response' =
          [status |-> 200,
           reliability_label |-> reliabilityLabel,
           reliability_score |-> reliabilityScore,
           signals |-> [occlusion_pct_avg |-> Round1(occlusionPctAvg),
                        occlusion_pct_max |-> Round1(occlusionPctMax),
                        dwell_s_max |-> Round1(dwellSMax),
                        blur_score_avg |-> MathRound(blurScoreAvg),
                        redundancy |-> 0],
           timestamps |-> [flip_at_s |-> Round1(flipAtS),
                           standard_ai_alert_at_s |-> Round1(standardAiAlertAtS)],
           debug |-> [sampled_frames |-> sampledFrames, fps_used |-> fps, roi |-> roi]]
    /\ pc' = "done"
    /\ UNCHANGED <<suspended, roiPoints, request, i, fps, roi, sampledFrames, frames, occlusionPcts,
                   occlusionPctAvg, occlusionPctMax, dwellSMax, currentDwell,
                   blurScoreAvg, flipAtS, occlusion30Duration, cumulativeDwell,
                   alertFrameIndex, standardAiAlertAtS, occlusion60Duration,
                   reliabilityScore, reliabilityLabel>>

Next ==
    \/ SampleFrame
    \/ ComputeOcclusion
    \/ DwellStep
    \/ EarlyStep
    \/ StandardStep
    \/ Score
    \/ Respond

Spec == Init /\ [][Next]_vars

-----------------------------------------------------------------------------
(* Geometry specification: the occlusion of one frame, over every list of  *)
(* at most MaxBoxes boxes of a small grid and a box larger than the frame  *)

GridBoxes ==
    { Box(x1, y1, x2, y2) : x1 \in 0..GridX, y1 \in 0..GridY,
                            x2 \in 0..GridX, y2 \in 0..GridY }

GeomBoxes ==
    {b \in GridBoxes : b.x1 < b.x2 /\ b.y1 < b.y2} \cup {Box(-1, -1, 11, 11)}

BoxLists == UNION {[1..n -> GeomBoxes] : n \in 0..MaxBoxes}

GeomRois ==
    { <<0, 0, GridX, 1>>, <<0, 0, GridX, GridY>>, <<1, 0, GridX, GridY>>,
      <<1, 0, 1, GridY>> }

\* one frame is sampled when fps = 1/8: Math.ceil(5 / 8) = 1
InitGeom ==
    /\ pc = "occlusion"
    /\ request = NoRequest
    /\ fps = <<1, 8>>
    /\ roi \in GeomRois
    /\ sampledFrames = SampledFrames(1, fps)
    /\ \E boxes \in BoxLists :
          frames = <<[timestamp |-> Zero, personBoxes |-> boxes, blurScore |-> 1500]>>
    /\ Blank
    /\ suspended = NoActivation

NextGeom == ComputeOcclusion

SpecGeom == InitGeom /\ [][NextGeom]_vars

-----------------------------------------------------------------------------
(* Scorer specification: the verdict over a grid of signal values *)

InitScore ==
    /\ pc = "score"
    /\ request = NoRequest
    /\ i = 0
    /\ fps = <<1, 1>>
    /\ roi = DEFAULT_ROI
    /\ sampledFrames = 0
    /\ frames = <<>>
    /\ occlusionPcts = <<>>
    /\ occlusionPctAvg = Zero
    /\ occlusionPctMax \in {Rat(100 * k, PctSteps) : k \in 0..PctSteps}
    /\ dwellSMax \in {Rat(h, 2) : h \in 0..MaxDwellHalves}
    /\ currentDwell = Zero
    /\ blurScoreAvg \in {Num(300 * k) : k \in 0..MaxBlurSteps}
    /\ flipAtS = Zero
    /\ occlusion30Duration = Zero
    /\ cumulativeDwell = Zero
    /\ alertFrameIndex = -1
    /\ standardAiAlertAtS = Zero
    /\ occlusion60Duration = Zero
    /\ reliabilityScore = 0
    /\ reliabilityLabel = ""
    /\ response = NoResponse
    /\ roiPoints = <<>>
    /\ suspended = NoActivation

NextScore == Score \/ Respond

SpecScore == InitScore /\ [][NextScore]_vars

-----------------------------------------------------------------------------
(* Steady-scene specification: the pass over a list of frames that all show *)
(* the same boxes and the same blur score, at fps = 5.  The frame list is   *)
(* the input of the pass (lines 467-638), so its length is drawn freely:    *)
(* 10 and 15 frames, and the 25 frames the route samples from a 5 s video.  *)

BoxOf(r) == Box(r[1], r[2], r[3], r[4])

\* the default ROI, a user-drawn one, and two degenerate ones: zero width,
\* and x2 < x1 (negative area)
SteadyRois == {DEFAULT_ROI, <<2, 6, 7, 9>>, <<3, 3, 3, 8>>, <<7, 2, 4, 8>>}

SteadyLengths == {10, 15, 25}

\* a box equal to the ROI under several blur scores, a small box in the
\* middle of the frame, two overlapping boxes, a box larger than the frame,
\* an empty frame
SteadyMenu(r) ==
    { [personBoxes |-> <<BoxOf(r)>>, blurScore |-> b] : b \in {0, 607, 1507, 2407, 3000, 3607} }
    \cup { [personBoxes |-> <<Box(4, 4, 6, 6)>>, blurScore |-> 3000],
           [personBoxes |-> <<Box(0, 0, 4, 10), Box(2, 0, 6, 10)>>, blurScore |-> 2107],
           [personBoxes |-> <<Box(-2, -2, 12, 12)>>, blurScore |-> 1207],
           [personBoxes |-> <<>>, blurScore |-> 1207] }

InitSteady ==
    /\ pc = "sample"
    /\ request = NoRequest
    /\ fps = Num(5)
    /\ roi \in SteadyRois
    /\ sampledFrames \in SteadyLengths
    /\ frames = <<>>
    /\ Blank
    /\ suspended = NoActivation

\* the frame loop with a detector that reports the same scene for every frame
SampleSteady ==
    /\ pc = "sample"
    /\ \E m \in SteadyMenu(roi) :
          /\ frames # <<>> =>
                /\ m.personBoxes = frames[1].personBoxes
                /\ m.blurScore = frames[1].blurScore
          /\ frames' = Append(frames, [timestamp |-> RDiv(Num(i), fps),
                                        personBoxes |-> m.personBoxes,
                                        blurScore |-> m.blurScore])
    /\ IF i + 1 < sampledFrames
       THEN i' = i + 1 /\ pc' = pc
       ELSE i' = 0 /\ pc' = "occlusion"
    /\ UNCHANGED <<suspended, roiPoints, request, fps, roi, sampledFrames, occlusionPcts, occlusionPctAvg,
                   occlusionPctMax, dwellSMax, currentDwell, blurScoreAvg,
                   flipAtS, occlusion30Duration, cumulativeDwell,
                   alertFrameIndex, standardAiAlertAtS, occlusion60Duration,
                   reliabilityScore, reliabilityLabel, response>>

NextSteady ==
    \/ SampleSteady
    \/ ComputeOcclusion
    \/ DwellStep
    \/ EarlyStep
    \/ StandardStep
    \/ Score
    \/ Respond

SpecSteady == InitSteady /\ [][NextSteady]_vars

-----------------------------------------------------------------------------
(* Route specification: the handler from the arrival of a request, through  *)
(* the proxy branch and the form parsing, to its response.  The detector    *)
(* reports the same scene for every frame.                                  *)

\* fileSize > 50 * 1024 * 1024 is refused
MaxUploadMB == 50

\* let fileSize = 0
InitialFileSizeMB == 0

\* the catch block leaves fileSize as it was
FormErrorFileSizeMB_unset == InitialFileSizeMB

\* fileSize = 10 * 1024 * 1024 when the form could not be read
FormErrorFileSizeMB == 10

RouteFileSizesMB == {1, MaxUploadMB, MaxUploadMB + 1}

RouteFpsParams == {"", "1", "0", "-1", "abc"}

RouteRoiParams == {"", "[0,0,0.5,1]", "[0,0,2,1]", "[0,0,1]", "oops"}

\* what the fetch of the backend can do: answer 2xx with the analysis,
\* answer 2xx with a body the handler cannot use, answer with an error
\* status, answer with an error status and break off before the body is
\* read, fail to connect, or take longer than the 120 s abort timer
BackendOutcomes == {"ok", "invalid", "error", "error_unread", "refused", "timeout"}

\* backendResponse.ok
BackendOkStatus == 200

BackendErrorStatuses == {422, 500}

\* NaN and the infinities are serialised as null
JsonNull == "null"

\* the verdict over no frames: occlusionPctMax is Math.max() = -Infinity, the
\* risk is -Infinity, Math.round(100 * (1 - risk)) is Infinity and
\* Math.max(0, Math.min(100, Infinity)) is 100
EmptyPassScore == 100

InitRoute ==
    /\ \E url \in BOOLEAN, video \in BOOLEAN, fileSizeMB \in RouteFileSizesMB,
          fp \in RouteFpsParams, rp \in RouteRoiParams :
          /\ request = [backendUrl |-> url, backend |-> "none", video |-> video,
                        fileSizeMB |-> fileSizeMB, fpsParam |-> fp, roiParam |-> rp,
                        bodyUsed |-> FALSE, backendStatus |-> 0]
          /\ pc = IF url THEN "proxy" ELSE "parse"
    /\ fps = Num(5)
    /\ roi = DEFAULT_ROI
    /\ sampledFrames = 0
    /\ frames = <<>>
    /\ Blank
    /\ suspended = NoActivation

\* the status line of the backend's answer, 0 when there is none
BackendStatuses(outcome) ==
    CASE outcome \in {"ok", "invalid"} -> {BackendOkStatus}
      [] outcome \in {"error", "error_unread"} -> BackendErrorStatuses
      [] OTHER -> {0}

\* the mutant treats the abort of the timer like any other failure
Rethrown_abort(outcome) == outcome \in {"invalid", "error_unread", "refused", "timeout"}

\* what the try block throws and catch (fetchError) throws again: everything
\* but the AbortError of the 120 s timer
Rethrown(outcome) == outcome \in {"invalid", "error_unread", "refused"}

\* if (backendUrl) { try { ... } catch (proxyError) { fall through } }
ProxyToBackend ==
    /\ pc = "proxy"
    /\ IF ~request.video
       THEN /\ request' = [request EXCEPT !.bodyUsed = TRUE]
            /\ response' = [status |-> 400, error |-> "No video file provided"]
            /\ pc' = "done"
       ELSE \E outcome \in BackendOutcomes : \E st \in BackendStatuses(outcome) :
               /\ request' = [request EXCEPT !.bodyUsed = TRUE, !.backend = outcome,
                                             !.backendStatus = st]
               /\ IF Rethrown(outcome)
                  THEN /\ response' = response
                       /\ pc' = "parse"
                  ELSE /\ pc' = "done"
                       /\ response' =
                             CASE outcome = "ok" -> [status |-> 200, data |-> "backend"]
                               [] outcome = "error" ->
                                     [status |-> st, error |-> "Backend analysis failed"]
                               [] outcome = "timeout" ->
                                     [status |-> 504,
                                      error |-> "Backend processing timed out"]
    /\ UNCHANGED <<suspended, roiPoints, i, fps, roi, sampledFrames, frames, occlusionPcts,
                   occlusionPctAvg, occlusionPctMax, dwellSMax, currentDwell,
                   blurScoreAvg, flipAtS, occlusion30Duration, cumulativeDwell,
                   alertFrameIndex, standardAiAlertAtS, occlusion60Duration,
                   reliabilityScore, reliabilityLabel>>

\* the form parsing of the mock branch, its two checks, and sampledFrames;
\* the form is not read when the body was consumed by the proxy branch or
\* when reading it takes more than 2 s
ParseForm ==
    /\ pc = "parse"
    /\ \E late \in BOOLEAN :
          LET parsed == ~request.bodyUsed /\ ~late
              videoFile == parsed /\ request.video
              fileSizeMB == IF ~parsed THEN FormErrorFileSizeMB
                            ELSE IF request.video THEN request.fileSizeMB
                            ELSE InitialFileSizeMB
              f == IF parsed THEN ParseFps(request.fpsParam) ELSE Num(5)
              r == IF parsed THEN ParseRoi(request.roiParam) ELSE DEFAULT_ROI
              n == IF IsNaN(f) THEN NaN ELSE SampledFrames(fileSizeMB, f)
          IN  IF ~videoFile /\ fileSizeMB = 0
              THEN /\ response' = [status |-> 400, error |-> "No video file provided"]
                   /\ pc' = "done"
                   /\ UNCHANGED <<fps, roi, sampledFrames>>
              ELSE IF fileSizeMB > MaxUploadMB
              THEN /\ response' = [status |-> 400, error |-> "Video file too large. Maximum 50MB."]
                   /\ pc' = "done"
                   /\ UNCHANGED <<fps, roi, sampledFrames>>
              ELSE /\ fps' = f
                   /\ roi' = r
                   /\ sampledFrames' = n
                   /\ response' = response
                   /\ pc' = IF ~IsNaN(f) /\ 0 < n THEN "sample" ELSE "empty"
    /\ request' = [request EXCEPT !.bodyUsed = TRUE]
    /\ UNCHANGED <<suspended, roiPoints, i, frames, occlusionPcts, occlusionPctAvg, occlusionPctMax,
                   dwellSMax, currentDwell, blurScoreAvg, flipAtS,
                   occlusion30Duration, cumulativeDwell, alertFrameIndex,
                   standardAiAlertAtS, occlusion60Duration, reliabilityScore,
                   reliabilityLabel>>

\* the rest of the handler when i < sampledFrames fails at once: no frame is
\* sampled, every loop runs zero times, the averages are 0 / 0
EmptyPass ==
    /\ pc = "empty"
    /\ occlusionPctAvg' = NaN
    /\ occlusionPctMax' = NegInfinity
    /\ blurScoreAvg' = NaN
    /\ reliabilityScore' = EmptyPassScore
    /\ reliabilityLabel' = ReliabilityLabel(reliabilityScore')
    /\ response' =
          [status |-> 200,
           reliability_label |-> reliabilityLabel',
           reliability_score |-> reliabilityScore',
           signals |-> [occlusion_pct_avg |-> JsonNull,
                        occlusion_pct_max |-> JsonNull,
                        dwell_s_max |-> Round1(dwellSMax),
                        blur_score_avg |-> JsonNull,
                        redundancy |-> 0],
           timestamps |-> [flip_at_s |-> Round1(flipAtS),
                           standard_ai_alert_at_s |-> Round1(standardAiAlertAtS)],
           debug |-> [sampled_frames |-> IF IsNaN(fps) THEN JsonNull ELSE sampledFrames,
                      fps_used |-> IF IsNaN(fps) THEN JsonNull ELSE fps,
                      roi |-> roi]]
    /\ pc' = "done"
    /\ UNCHANGED <<suspended, roiPoints, request, i, fps, roi, sampledFrames, frames, occlusionPcts,
                   dwellSMax, currentDwell, flipAtS, occlusion30Duration,
                   cumulativeDwell, alertFrameIndex, standardAiAlertAtS,
                   occlusion60Duration>>

NextRoute ==
    \/ ProxyToBackend
    \/ ParseForm
    \/ EmptyPass
    \/ SampleSteady
    \/ ComputeOcclusion
    \/ DwellStep
    \/ EarlyStep
    \/ StandardStep
    \/ Score
    \/ Respond

SpecRoute == InitRoute /\ [][NextRoute]_vars

-----------------------------------------------------------------------------
(* Uploader specification: the component that draws the ROI.  The user    *)
(* clicks points on the canvas, may clear them, and uploads; the upload   *)
(* builds the roi array of the form from the clicked points.              *)

\* most points the user clicks before uploading
MaxClicks == 5

\* a click lands on one of these coordinates (tenths of the canvas)
ClickCoords == {2, 5, 8}

\* useCallback(..., []): the handler keeps the roiPoints of the first render
ClosureRoiPoints == <<>>

\* insert v into the ascending sequence s
Insert(s, v) ==
    LET below == SelectSeq(s, LAMBDA e : e <= v)
        above == SelectSeq(s, LAMBDA e : e > v)
    IN below \o <<v>> \o above

RECURSIVE SortAscending(_)
\* values.sort((a, b) => a - b)
SortAscending(values) ==
    IF values = <<>> THEN <<>>
    ELSE Insert(SortAscending(Tail(values)), Head(values))

\* the mutant reads the coordinates in click order
RoiFromPoints_unsorted(points) ==
    LET xs == [k \in 1..Len(points) |-> points[k].x]
        ys == [k \in 1..Len(points) |-> points[k].y]
    IN <<xs[1], ys[1], xs[4], ys[4]>>

\* xs = points.map(p => p.x).sort(...); roi = [xs[0], ys[0], xs[3], ys[3]]
RoiFromPoints(points) ==
    LET xs == SortAscending([k \in 1..Len(points) |-> points[k].x])
        ys == SortAscending([k \in 1..Len(points) |-> points[k].y])
    IN <<xs[1], ys[1], xs[4], ys[4]>>

\* the component is mounted with a file selected and no point clicked
InitClient ==
    /\ pc = "draw"
    /\ request = NoRequest
    /\ fps = Num(5)
    /\ roi = DEFAULT_ROI
    /\ sampledFrames = 0
    /\ frames = <<>>
    /\ Blank
    /\ suspended = NoActivation

\* if (!canvasRef.current || roiPoints.length >= 4) return; append {x, y}
handleCanvasClick ==
    /\ pc = "draw"
    /\ ~(Len(ClosureRoiPoints) >= 4)
    /\ Len(roiPoints) < MaxClicks
    /\ \E x \in ClickCoords, y \in ClickCoords :
          roiPoints' = Append(roiPoints, [x |-> x, y |-> y])
    /\ UNCHANGED <<suspended, request, pc, i, fps, roi, sampledFrames, frames, occlusionPcts,
                   occlusionPctAvg, occlusionPctMax, dwellSMax, currentDwell,
                   blurScoreAvg, flipAtS, occlusion30Duration, cumulativeDwell,
                   alertFrameIndex, standardAiAlertAtS, occlusion60Duration,
                   reliabilityScore, reliabilityLabel, response>>

\* setRoiPoints([])
handleClearRoi ==
    /\ pc = "draw"
    /\ roiPoints # <<>>
    /\ roiPoints' = <<>>
    /\ UNCHANGED <<suspended, request, pc, i, fps, roi, sampledFrames, frames, occlusionPcts,
                   occlusionPctAvg, occlusionPctMax, dwellSMax, currentDwell,
                   blurScoreAvg, flipAtS, occlusion30Duration, cumulativeDwell,
                   alertFrameIndex, standardAiAlertAtS, occlusion60Duration,
                   reliabilityScore, reliabilityLabel, response>>

\* the form of the upload: the video, and the roi field when four points are
\* drawn.  roi holds the array the field carries; "roi" marks the field present
handleUpload ==
    /\ pc = "draw"
    /\ pc' = "upload"
    /\ IF Len(roiPoints) = 4
       THEN /\ roi' = RoiFromPoints(roiPoints)
            /\ request' = [request EXCEPT !.video = TRUE, !.roiParam = "roi"]
       ELSE /\ roi' = roi
            /\ request' = [request EXCEPT !.video = TRUE]
    /\ UNCHANGED <<suspended, roiPoints, i, fps, sampledFrames, frames, occlusionPcts,
                   occlusionPctAvg, occlusionPctMax, dwellSMax, currentDwell,
                   blurScoreAvg, flipAtS, occlusion30Duration, cumulativeDwell,
                   alertFrameIndex, standardAiAlertAtS, occlusion60Duration,
                   reliabilityScore, reliabilityLabel, response>>

NextClient ==
    \/ handleCanvasClick
    \/ handleClearRoi
    \/ handleUpload

SpecClient == InitClient /\ [][NextClient]_vars

-----------------------------------------------------------------------------
(* Two invocations of the handler.  The variables of the pass are the      *)
(* locals of the invocation that runs; suspended holds the locals of the   *)
(* other one.  Switch hands the processor over between any two steps,      *)
(* which covers every interleaving of the two passes.                      *)

\* the locals of the running invocation
Activation ==
    [request |-> request, pc |-> pc, i |-> i, fps |-> fps, roi |-> roi,
     sampledFrames |-> sampledFrames, frames |-> frames,
     occlusionPcts |-> occlusionPcts, occlusionPctAvg |-> occlusionPctAvg,
     occlusionPctMax |-> occlusionPctMax, dwellSMax |-> dwellSMax,
     currentDwell |-> currentDwell, blurScoreAvg |-> blurScoreAvg,
     flipAtS |-> flipAtS, occlusion30Duration |-> occlusion30Duration,
     cumulativeDwell |-> cumulativeDwell, alertFrameIndex |-> alertFrameIndex,
     standardAiAlertAtS |-> standardAiAlertAtS,
     occlusion60Duration |-> occlusion60Duration,
     reliabilityScore |-> reliabilityScore, reliabilityLabel |-> reliabilityLabel,
     response |-> response]

\* the mutant keeps the accumulators in variables of the module, which both
\* invocations write
Resume_shared(a) ==
    [a EXCEPT !.cumulativeDwell = cumulativeDwell, !.currentDwell = currentDwell,
              !.occlusion30Duration = occlusion30Duration,
              !.occlusion60Duration = occlusion60Duration,
              !.flipAtS = flipAtS, !.standardAiAlertAtS = standardAiAlertAtS]

\* let dwellSMax, currentDwell, flipAtS, ... are declared inside POST: an
\* invocation that resumes finds its own values
Resume(a) ==
    [request |-> a.request, pc |-> a.pc, i |-> a.i, fps |-> a.fps, roi |-> a.roi,
     sampledFrames |-> a.sampledFrames, frames |-> a.frames,
     occlusionPcts |-> a.occlusionPcts, occlusionPctAvg |-> a.occlusionPctAvg,
     occlusionPctMax |-> a.occlusionPctMax, dwellSMax |-> a.dwellSMax,
     currentDwell |-> a.currentDwell, blurScoreAvg |-> a.blurScoreAvg,
     flipAtS |-> a.flipAtS, occlusion30Duration |-> a.occlusion30Duration,
     cumulativeDwell |-> a.cumulativeDwell, alertFrameIndex |-> a.alertFrameIndex,
     standardAiAlertAtS |-> a.standardAiAlertAtS,
     occlusion60Duration |-> a.occlusion60Duration,
     reliabilityScore |-> a.reliabilityScore, reliabilityLabel |-> a.reliabilityLabel,
     response |-> a.response]

\* the scenes the detector reports over a clip
PairScenes == {"third", "gap", "whole", "mixed"}

\* frame k of a scene: the occlusion is 30 throughout; 30 with a clear third
\* frame; 100 throughout; 0, 100, 100, 0, then 60
SceneFrame(scene, k) ==
    LET clear == [personBoxes |-> <<>>, blurScore |-> 607]
        third == [personBoxes |-> <<Box(0, 0, 3, 10)>>, blurScore |-> 1507]
        most == [personBoxes |-> <<Box(0, 0, 4, 10), Box(2, 0, 6, 10)>>, blurScore |-> 2107]
        whole == [personBoxes |-> <<Box(-2, -2, 12, 12)>>, blurScore |-> 1207]
    IN  CASE scene = "third" -> third
          [] scene = "gap" -> IF k = 3 THEN clear ELSE third
          [] scene = "whole" -> whole
          [] scene = "mixed" -> IF k \in {1, 4} THEN clear
                                ELSE IF k \in {2, 3} THEN whole ELSE most

\* the frames sampled from a scene at f frames per second
PairFrames(scene, n, f) ==
    [k \in 1..n |-> [timestamp |-> RDiv(Num(k - 1), f),
                     personBoxes |-> SceneFrame(scene, k).personBoxes,
                     blurScore |-> SceneFrame(scene, k).blurScore]]

\* two requests have been parsed and sampled; the first is about to compute
\* its occlusion series, the second waits at the same point
InitPair ==
    /\ pc = "occlusion"
    /\ request = [backendUrl |-> FALSE, backend |-> "none", video |-> TRUE,
                  fileSizeMB |-> MaxFileMB, fpsParam |-> "1", roiParam |-> "[0,0,1,1]",
                  bodyUsed |-> TRUE, backendStatus |-> 0]
    /\ fps = ParseFps(request.fpsParam)
    /\ roi = ParseRoi(request.roiParam)
    /\ sampledFrames = SampledFrames(MaxFileMB, fps)
    /\ \E scene \in PairScenes : frames = PairFrames(scene, sampledFrames, fps)
    /\ Blank
    /\ \E scene \in PairScenes :
          suspended = [Activation EXCEPT !.frames = PairFrames(scene, sampledFrames, fps)]

\* the running invocation is set aside and the other one runs
Switch ==
    /\ suspended' = Activation
    /\ LET a == Resume(suspended)
       IN  /\ request' = a.request
           /\ pc' = a.pc
           /\ i' = a.i
           /\ fps' = a.fps
           /\ roi' = a.roi
           /\ sampledFrames' = a.sampledFrames
           /\ frames' = a.frames
           /\ occlusionPcts' = a.occlusionPcts
           /\ occlusionPctAvg' = a.occlusionPctAvg
           /\ occlusionPctMax' = a.occlusionPctMax
           /\ dwellSMax' = a.dwellSMax
           /\ currentDwell' = a.currentDwell
           /\ blurScoreAvg' = a.blurScoreAvg
           /\ flipAtS' = a.flipAtS
           /\ occlusion30Duration' = a.occlusion30Duration
           /\ cumulativeDwell' = a.cumulativeDwell
           /\ alertFrameIndex' = a.alertFrameIndex
           /\ standardAiAlertAtS' = a.standardAiAlertAtS
           /\ occlusion60Duration' = a.occlusion60Duration
           /\ reliabilityScore' = a.reliabilityScore
           /\ reliabilityLabel' = a.reliabilityLabel
           /\ response' = a.response
    /\ UNCHANGED roiPoints

NextPair ==
    \/ ComputeOcclusion
    \/ DwellStep
    \/ EarlyStep
    \/ StandardStep
    \/ Score
    \/ Respond
    \/ Switch

SpecPair == InitPair /\ [][NextPair]_vars

-----------------------------------------------------------------------------
(* Threshold specification: the pass over frames whose occlusion lies just *)
(* above a threshold.  The coordinates of this specification are           *)
(* thousandths of the frame; the occlusion is a ratio of areas and does    *)
(* not see the unit.                                                       *)

\* the default ROI [0, 0, 1, 1] in thousandths
EdgeRoi == <<0, 0, 1000, 1000>>

\* what the detector reports for one frame: no box, or a box covering 10,
\* 10.04, 30.04 or 60.1 percent of the ROI
EdgeMenu ==
    { [personBoxes |-> <<>>, blurScore |-> 607],
      [personBoxes |-> <<Box(0, 0, 250, 400)>>, blurScore |-> 907],
      [personBoxes |-> <<Box(0, 0, 251, 400)>>, blurScore |-> 1507],
      [personBoxes |-> <<Box(0, 0, 751, 400)>>, blurScore |-> 2107],
      [personBoxes |-> <<Box(0, 0, 1000, 601)>>, blurScore |-> 1207] }

\* a clip of MaxFileMB seconds has been sampled at one frame per second
InitEdge ==
    /\ pc = "occlusion"
    /\ request = NoRequest
    /\ fps = Num(1)
    /\ roi = EdgeRoi
    /\ sampledFrames = SampledFrames(MaxFileMB, fps)
    /\ \E scene \in [1..sampledFrames -> EdgeMenu] :
          frames = [k \in 1..sampledFrames |->
                       [timestamp |-> RDiv(Num(k - 1), fps),
                        personBoxes |-> scene[k].personBoxes,
                        blurScore |-> scene[k].blurScore]]
    /\ Blank
    /\ suspended = NoActivation

NextEdge ==
    \/ ComputeOcclusion
    \/ DwellStep
    \/ EarlyStep
    \/ StandardStep
    \/ Score
    \/ Respond

SpecEdge == InitEdge /\ [][NextEdge]_vars

-----------------------------------------------------------------------------
(* Vocabulary of the properties, stated over the whole occlusion series *)

PassOver == pc \in {"score", "respond", "done"}

Above(S, k, th) == RGt(S[k], Num(th))

\* number of consecutive samples above th that end at sample k
RunLength(S, k, th) ==
    CHOOSE n \in 0..k :
        /\ \A j \in (k - n + 1)..k : Above(S, j, th)
        /\ n < k => ~Above(S, k - n, th)

Seconds(n) == RDiv(Num(n), fps)

EarlyRuleAt(k) ==
    \/ RGeq(Seconds(RunLength(occlusionPcts, k, 30)), <<1, 2>>)
    \/ RGt(Seconds(RunLength(occlusionPcts, k, 10)), Num(2))

StandardRuleAt(k) ==
    \/ RGeq(Seconds(RunLength(occlusionPcts, k, 60)), Num(2))
    \/ RGeq(Seconds(RunLength(occlusionPcts, k, 10)), Num(4))

EarlyTripFrames == {k \in 1..Len(occlusionPcts) : EarlyRuleAt(k)}

StandardTripFrames == {k \in 1..Len(occlusionPcts) : StandardRuleAt(k)}

\* timestamp of the first frame of K, 0 when K is empty
TripTime(K) ==
    IF K = {} THEN Zero
    ELSE frames[CHOOSE k \in K : \A j \in K : k <= j].timestamp

LongestRun(S, th) ==
    CHOOSE n \in 0..Len(S) :
        /\ \A k \in 1..Len(S) : RunLength(S, k, th) <= n
        /\ n > 0 => \E k \in 1..Len(S) : RunLength(S, k, th) = n

\* unit cells of the ROI that some box covers
CoveredCells(boxes, r) ==
    { c \in (r[1]..(r[3] - 1)) \X (r[2]..(r[4] - 1)) :
        \E k \in 1..Len(boxes) :
            /\ boxes[k].x1 <= c[1] /\ c[1] + 1 <= boxes[k].x2
            /\ boxes[k].y1 <= c[2] /\ c[2] + 1 <= boxes[k].y2 }

ExactPct(boxes, r) == Rat(100 * Cardinality(CoveredCells(boxes, r)), RoiArea(r))

MeetsRoi(b, r) ==
    /\ IMax(b.x1, r[1]) < IMin(b.x2, r[3])
    /\ IMax(b.y1, r[2]) < IMin(b.y2, r[4])

NoBoxMeetsRoi ==
    \A k \in 1..Len(frames) :
        \A j \in 1..Len(frames[k].personBoxes) : ~MeetsRoi(frames[k].personBoxes[j], roi)

-----------------------------------------------------------------------------
(* Properties *)

\* C1: whenever both alert policies report a trip (both timestamps nonzero),
\* the early trip time is no later than the standard trip time, in the loop
\* variables at every step and in the rounded timestamps of the response.
Thm_C1 ==
    /\ (flipAtS # Zero /\ standardAiAlertAtS # Zero) => RLeq(flipAtS, standardAiAlertAtS)
    /\ pc = "done" =>
          \/ response.timestamps.flip_at_s = Zero
          \/ response.timestamps.standard_ai_alert_at_s = Zero
          \/ RLeq(response.timestamps.flip_at_s, response.timestamps.standard_ai_alert_at_s)

Wit_C1 ==
    /\ pc = "done"
    /\ response.timestamps.flip_at_s # Zero
    /\ RLt(response.timestamps.flip_at_s, response.timestamps.standard_ai_alert_at_s)

\* C2 (as claimed): each policy's trip time is the timestamp of the first
\* frame at which one of its trigger rules holds (0 when none does), also
\* when that frame is the one with timestamp 0.
CE_C2 ==
    pc = "done" =>
        /\ flipAtS = TripTime(EarlyTripFrames)
        /\ standardAiAlertAtS = TripTime(StandardTripFrames)

\* C3 (as claimed): a reported trip time of 0 means that no frame of the run
\* satisfied a trigger rule of that policy.
CE_C3 ==
    pc = "done" =>
        /\ response.timestamps.flip_at_s = Zero => EarlyTripFrames = {}
        /\ response.timestamps.standard_ai_alert_at_s = Zero => StandardTripFrames = {}

\* C4: a policy none of whose trigger rules ever holds reports a trip time of 0.
Thm_C4 ==
    /\ pc \in {"standard", "score", "respond", "done"} =>
          (EarlyTripFrames = {} => flipAtS = Zero)
    /\ PassOver => (StandardTripFrames = {} => standardAiAlertAtS = Zero)
    /\ pc = "done" =>
          /\ EarlyTripFrames = {} => response.timestamps.flip_at_s = Zero
          /\ StandardTripFrames = {} => response.timestamps.standard_ai_alert_at_s = Zero

\* a run whose dwell reached the early dwell threshold without crossing it
Wit_C4 ==
    /\ pc = "done"
    /\ EarlyTripFrames = {}
    /\ StandardTripFrames = {}
    /\ dwellSMax = Num(2)
    /\ response.timestamps.flip_at_s = Zero

\* C5: every computed occlusion percentage lies in [0, 100].
Thm_C5 ==
    \A k \in 1..Len(occlusionPcts) :
        RLeq(Zero, occlusionPcts[k]) /\ RLeq(occlusionPcts[k], Num(100))

\* the merged rectangles of a frame sum to more than the ROI area
Wit_C5 ==
    /\ Len(occlusionPcts) = 1
    /\ RoiArea(roi) > 0
    /\ UnionArea(frames[1].personBoxes, roi) > RoiArea(roi)
    /\ \E j \in 1..Len(frames[1].personBoxes) : frames[1].personBoxes[j].x2 > 10
    /\ occlusionPcts[1] = Num(100)

\* C6 (as claimed): for a ROI of positive area the occlusion of a frame is the
\* area of the union of the clipped boxes over the ROI area, as a percentage.
CE_C6 ==
    \A k \in 1..Len(occlusionPcts) :
        RoiArea(roi) > 0 => occlusionPcts[k] = ExactPct(frames[k].personBoxes, roi)

\* C7: when no box meets the ROI with positive area in any frame, the average
\* and peak occlusion, the longest dwell and both trip times are 0.
Thm_C7 ==
    (pc = "done" /\ NoBoxMeetsRoi) =>
        /\ occlusionPctAvg = Zero /\ occlusionPctMax = Zero
        /\ dwellSMax = Zero
        /\ flipAtS = Zero /\ standardAiAlertAtS = Zero
        /\ response.signals.occlusion_pct_avg = Zero
        /\ response.signals.occlusion_pct_max = Zero
        /\ response.signals.dwell_s_max = Zero
        /\ response.timestamps.flip_at_s = Zero
        /\ response.timestamps.standard_ai_alert_at_s = Zero

\* every frame holds a box, and none of them meets the ROI
Wit_C7 ==
    /\ pc = "done"
    /\ NoBoxMeetsRoi
    /\ \A k \in 1..Len(frames) : frames[k].personBoxes # <<>>

\* C8: the dwell maximum is 1/fps times the longest run of consecutive samples
\* above 10 percent, over the samples read so far and after the full pass.
Thm_C8 ==
    /\ pc = "dwell" =>
          dwellSMax = Seconds(LongestRun(SubSeq(occlusionPcts, 1, i), 10))
    /\ pc \in {"early", "standard", "score", "respond", "done"} =>
          dwellSMax = Seconds(LongestRun(occlusionPcts, 10))

\* two occluded intervals apart: the maximum is the longer one, not their sum
Wit_C8 ==
    /\ pc = "done"
    /\ \E a, b, c \in 1..Len(occlusionPcts) :
          /\ a < b /\ b < c
          /\ Above(occlusionPcts, a, 10)
          /\ ~Above(occlusionPcts, b, 10)
          /\ Above(occlusionPcts, c, 10)
    /\ dwellSMax = Seconds(2)

\* C9: the dwell maximum never decreases from one step to the next, and the
\* current run never exceeds it.
Thm_C9 ==
    /\ [][RLeq(dwellSMax, dwellSMax')]_vars
    /\ [](RLeq(currentDwell, dwellSMax))

\* a second run, shorter than the longest one so far, is under way
Wit_C9 ==
    /\ pc = "dwell"
    /\ RLt(Zero, currentDwell)
    /\ RLt(currentDwell, dwellSMax)

-----------------------------------------------------------------------------
(* The verdict as the properties state it *)

RefBlurTerm(b) ==
    IF RGt(b, Zero) THEN RSub(Num(1), MathMin(Num(1), RDiv(b, Num(3000)))) ELSE Num(1)

\* 100 * (1 - risk) = 100 - 0.6 * occlusionMax - 30 * min(dwellMax / 5, 1) - 10 * blurTerm
RefValue(oMax, dMax, b) ==
    RSub(RSub(RSub(Num(100), RMul(<<3, 5>>, oMax)),
              RMul(Num(30), IF RLt(dMax, Num(5)) THEN RDiv(dMax, Num(5)) ELSE Num(1))),
         RMul(Num(10), RefBlurTerm(b)))

\* the integer of 0..100 nearest to v, halves upwards, clamped
RefScore(v) ==
    IF RLt(v, <<-1, 2>>) THEN 0
    ELSE IF RGeq(v, <<201, 2>>) THEN 100
    ELSE CHOOSE n \in 0..100 : RLeq(<<2 * n - 1, 2>>, v) /\ RLt(v, <<2 * n + 1, 2>>)

-----------------------------------------------------------------------------
(* Monotonicity and the blur term *)

OcclusionGrid == {Rat(100 * k, PctSteps) : k \in 0..PctSteps}

DwellGrid == {Rat(h, 2) : h \in 0..MaxDwellHalves}

\* C11: the score the route stored is at least the score of any signal
\* triple with a larger occlusion maximum (dwell and blur the same) and of
\* any triple with a larger dwell maximum (occlusion and blur the same),
\* rounding and clamping included.
Thm_C11 ==
    pc \in {"respond", "done"} =>
        /\ \A o2 \in OcclusionGrid :
              RGeq(o2, occlusionPctMax) =>
                  ReliabilityScore(o2, dwellSMax, blurScoreAvg) <= reliabilityScore
        /\ \A d2 \in DwellGrid :
              RGeq(d2, dwellSMax) =>
                  ReliabilityScore(occlusionPctMax, d2, blurScoreAvg) <= reliabilityScore

\* a scored triple with room above it on both axes and a strictly lower
\* score one step up on each
Wit_C11 ==
    /\ pc = "done"
    /\ RLt(Zero, occlusionPctMax)
    /\ RLt(Zero, dwellSMax)
    /\ \E o2 \in OcclusionGrid :
          /\ RGt(o2, occlusionPctMax)
          /\ ReliabilityScore(o2, dwellSMax, blurScoreAvg) < reliabilityScore
    /\ \E d2 \in DwellGrid :
          /\ RGt(d2, dwellSMax)
          /\ ReliabilityScore(occlusionPctMax, d2, blurScoreAvg) < reliabilityScore

\* C18: a blur average of 0 gives blur term 1 and the score of the other two
\* terms less 10; a blur average of 3000 or more gives blur term 0; the blur
\* term of every blur average lies in [0, 1].
Thm_C18 ==
    pc \in {"respond", "done"} =>
        /\ RLeq(Zero, BlurTerm(blurScoreAvg)) /\ RLeq(BlurTerm(blurScoreAvg), Num(1))
        /\ blurScoreAvg = Zero =>
              /\ BlurTerm(blurScoreAvg) = Num(1)
              /\ reliabilityScore = RefScore(RefValue(occlusionPctMax, dwellSMax, Zero))
        /\ RGeq(blurScoreAvg, Num(3000)) =>
              /\ BlurTerm(blurScoreAvg) = Zero
              /\ reliabilityScore =
                    RefScore(RAdd(RefValue(occlusionPctMax, dwellSMax, Zero), Num(10)))

\* a verdict on a blur average of 0 whose score is neither 0 nor 100
Wit_C18 ==
    /\ pc = "done"
    /\ blurScoreAvg = Zero
    /\ response.reliability_score = 60

-----------------------------------------------------------------------------
(* Concrete runs at fps = 5 *)

\* the frame list has n frames at timestamps i / 5, all holding the boxes bs
SteadyRun(n, bs) ==
    /\ pc # "sample"
    /\ fps = Num(5)
    /\ Len(frames) = n
    /\ \A k \in 1..n :
          /\ frames[k].timestamp = Rat(k - 1, 5)
          /\ frames[k].personBoxes = bs

\* C12 (as claimed): 15 frames at fps = 5 with a box equal to the ROI (a
\* rectangle with area) give
\* occlusion 100 in every frame, dwell_s_max 3.0, flip_at_s 0.5 and
\* standard_ai_alert_at_s 2.0.
CE_C12 ==
    (SteadyRun(15, <<BoxOf(roi)>>) /\ RoiArea(roi) > 0 /\ pc = "done") =>
        /\ \A k \in 1..15 : occlusionPcts[k] = Num(100)
        /\ response.signals.dwell_s_max = Num(3)
        /\ response.timestamps.flip_at_s = <<1, 2>>
        /\ response.timestamps.standard_ai_alert_at_s = Num(2)

\* C12 (amended): 15 frames at fps = 5 with a box equal to the ROI (a
\* rectangle with area) give
\* occlusion 100 in every frame and dwell_s_max 3.0; the early policy is
\* untripped before frame 2 and trips at frame 2, t = 0.4, by its sustain
\* rule (the sustain accumulator has reached 0.5, the dwell accumulator is
\* not above 2); the standard policy trips at t = 2.0.
Thm_C12 ==
    (SteadyRun(15, <<BoxOf(roi)>>) /\ RoiArea(roi) > 0) =>
        /\ pc # "occlusion" => \A k \in 1..15 : occlusionPcts[k] = Num(100)
        /\ (pc = "early" /\ i < 3) => flipAtS = Zero
        /\ (pc = "early" /\ i = 3) =>
              /\ flipAtS = <<2, 5>>
              /\ alertFrameIndex = 2
              /\ RGeq(occlusion30Duration, <<1, 2>>)
              /\ RLeq(cumulativeDwell, Num(2))
        /\ pc = "done" =>
              /\ response.signals.dwell_s_max = Num(3)
              /\ response.timestamps.flip_at_s = <<2, 5>>
              /\ response.timestamps.standard_ai_alert_at_s = Num(2)

\* the run has ended on a user-drawn ROI with both policies tripped
Wit_C12 ==
    /\ SteadyRun(15, <<BoxOf(roi)>>)
    /\ pc = "done"
    /\ roi = <<2, 6, 7, 9>>
    /\ response.timestamps.flip_at_s = <<2, 5>>
    /\ response.timestamps.standard_ai_alert_at_s = Num(2)

\* occlusion 100 in all 15 frames at fps = 5
FullOcclusion15 ==
    /\ pc \in {"respond", "done"}
    /\ fps = Num(5)
    /\ Len(occlusionPcts) = 15
    /\ \A k \in 1..15 : occlusionPcts[k] = Num(100)

\* C13 (as claimed): with occlusion 100 in all 15 frames at fps = 5 the
\* score is 0 and the label NOT RELIABLE, for any blur average.
CE_C13 ==
    FullOcclusion15 =>
        /\ reliabilityScore = 0
        /\ reliabilityLabel = "NOT RELIABLE"

\* C13 (amended): with occlusion 100 in all 15 frames at fps = 5 the risk is
\* 0.6 + 0.3 * (3 / 5) + 0.1 * blurTerm, so the score is
\* round(22 - 10 * blurTerm), between 12 (blur average 0) and 22 (blur
\* average 3000 or more), and the label is NOT RELIABLE.
Thm_C13 ==
    FullOcclusion15 =>
        /\ reliabilityScore =
              RefScore(RSub(Num(22), RMul(Num(10), RefBlurTerm(blurScoreAvg))))
        /\ reliabilityScore \in 12..22
        /\ blurScoreAvg = Zero => reliabilityScore = 12
        /\ RGeq(blurScoreAvg, Num(3000)) => reliabilityScore = 22
        /\ reliabilityLabel = "NOT RELIABLE"

\* the run has ended on a blur average strictly between 0 and 3000
Wit_C13 ==
    /\ FullOcclusion15
    /\ pc = "done"
    /\ blurScoreAvg = Num(1507)
    /\ response.reliability_score = 17
    /\ response.reliability_label = "NOT RELIABLE"

\* C14: ROI [0,0,1,1], 10 frames at fps = 5, the box [0.4,0.4,0.6,0.6] in
\* every frame and blur 3000 give occlusion 4 in every frame, average and
\* maximum 4.0, dwell_s_max 0.0, no early and no standard trip, score 98 and
\* label RELIABLE.
Thm_C14 ==
    ( /\ SteadyRun(10, <<Box(4, 4, 6, 6)>>)
      /\ roi = DEFAULT_ROI
      /\ \A k \in 1..10 : frames[k].blurScore = 3000
      /\ pc = "done" ) =>
        /\ \A k \in 1..10 : occlusionPcts[k] = Num(4)
        /\ response.signals.occlusion_pct_avg = Num(4)
        /\ response.signals.occlusion_pct_max = Num(4)
        /\ response.signals.dwell_s_max = Zero
        /\ response.signals.blur_score_avg = 3000
        /\ response.timestamps.flip_at_s = Zero
        /\ response.timestamps.standard_ai_alert_at_s = Zero
        /\ response.reliability_score = 98
        /\ response.reliability_label = "RELIABLE"

\* the run has ended
Wit_C14 ==
    /\ SteadyRun(10, <<Box(4, 4, 6, 6)>>)
    /\ roi = DEFAULT_ROI
    /\ pc = "done"
    /\ blurScoreAvg = Num(3000)
    /\ occlusionPctMax = Num(4)

-----------------------------------------------------------------------------
(* The early loop with its constants as parameters *)

\* the early loop (lines 557-581) from sample k on, with the thresholds
\* 30, 0.5 and 2 replaced by th, minSustain and dwellTh; dwellStrict tells
\* whether the dwell accumulator must exceed dwellTh (as in the early loop)
\* or only reach it
RECURSIVE PolicyRun(_, _, _, _, _, _, _, _)
PolicyRun(k, sustain, dwell, trip, th, minSustain, dwellTh, dwellStrict) ==
    IF k > Len(occlusionPcts) THEN trip
    ELSE LET pct == occlusionPcts[k]
             frameTime == frames[k].timestamp
             high == RGt(pct, th)
             s1 == IF high THEN Accumulate(sustain, fps) ELSE Zero
             trip1 == IF high /\ RGeq(s1, minSustain) /\ trip = Zero
                      THEN frameTime ELSE trip
             occ == RGt(pct, Num(10))
             d1 == IF occ THEN Accumulate(dwell, fps) ELSE Zero
             crossed == IF dwellStrict THEN RGt(d1, dwellTh) ELSE RGeq(d1, dwellTh)
             trip2 == IF occ /\ crossed /\ trip1 = Zero THEN frameTime ELSE trip1
         IN  PolicyRun(k + 1, s1, d1, trip2, th, minSustain, dwellTh, dwellStrict)

PolicyTrip(th, minSustain, dwellTh, dwellStrict) ==
    PolicyRun(1, Zero, Zero, Zero, th, minSustain, dwellTh, dwellStrict)

\* C15 (as claimed): the early computation run with the constants
\* (60, 2, 4) in place of (30, 0.5, 2), comparison operators unchanged,
\* yields the standard computation's trip time.
CE_C15 ==
    pc = "done" => standardAiAlertAtS = PolicyTrip(Num(60), Num(2), Num(4), TRUE)

\* C15 (amended): the early computation is the parametrized machine at
\* (30, 0.5, 2) with a strict dwell comparison (> 2); the standard
\* computation is the same machine at (60, 2, 4) with the dwell comparison
\* changed to >= 4.  The two differ in their constants and in that one
\* comparison operator, not in their update order.
Thm_C15 ==
    pc = "done" =>
        /\ flipAtS = PolicyTrip(Num(30), <<1, 2>>, Num(2), TRUE)
        /\ standardAiAlertAtS = PolicyTrip(Num(60), Num(2), Num(4), FALSE)

\* a finished run whose standard trip time the strict comparison misses
Wit_C15 ==
    /\ pc = "done"
    /\ flipAtS # Zero
    /\ standardAiAlertAtS # Zero
    /\ standardAiAlertAtS # PolicyTrip(Num(60), Num(2), Num(4), TRUE)

-----------------------------------------------------------------------------
(* Degenerate ROI *)

\* C17: when the ROI has no area ((x2 - x1) * (y2 - y1) <= 0) every frame's
\* occlusion is 0 whatever boxes it holds, every loop of the pass stays
\* inside the frame list, and the pass ends with a status-200 response
\* reporting occlusion 0, no dwell, no trip and the score of the blur term
\* alone.
Thm_C17 ==
    RoiArea(roi) <= 0 =>
        /\ \A k \in 1..Len(occlusionPcts) : occlusionPcts[k] = Zero
        /\ pc \in {"occlusion", "dwell", "early", "standard"} => i < Len(frames)
        /\ pc \in {"score", "respond"} => response = NoResponse
        /\ pc = "done" =>
              /\ response.status = 200
              /\ response.signals.occlusion_pct_avg = Zero
              /\ response.signals.occlusion_pct_max = Zero
              /\ response.signals.dwell_s_max = Zero
              /\ response.timestamps.flip_at_s = Zero
              /\ response.timestamps.standard_ai_alert_at_s = Zero
              /\ response.reliability_score =
                    RefScore(RefValue(Zero, Zero, blurScoreAvg))
              /\ response.reliability_label = "RELIABLE"

\* the pass has ended on a ROI of negative area whose frames hold a box
\* covering the whole frame
Wit_C17 ==
    /\ pc = "done"
    /\ RoiArea(roi) < 0
    /\ frames[1].personBoxes = <<Box(-2, -2, 12, 12)>>
    /\ response.status = 200

-----------------------------------------------------------------------------
(* The route with and without its backend, and what it accepts *)

\* fps is a positive number and the ROI lies inside the unit frame
WellFormed ==
    /\ RGt(fps, Zero)
    /\ \A k \in 1..4 : 0 <= roi[k] /\ roi[k] <= 10

\* C19 (as claimed): the handler is in its occlusion, dwell, alert or score
\* computation only with a positive fps and a ROI of normalized
\* coordinates.
CE_C19 ==
    pc \in {"empty", "occlusion", "dwell", "early", "standard", "score"} => WellFormed

\* the request carries a video of at most 50 MB, and either no backend is
\* configured or the backend could not be connected to
WithoutBackend ==
    /\ request.video
    /\ request.fileSizeMB <= MaxUploadMB
    /\ ~request.backendUrl \/ request.backend = "refused"

\* C20: a request with a video of at most 50 MB, handled with no backend
\* configured or with a backend that cannot be connected to, is never
\* answered with an error: when the handler is done the response has status
\* 200 and carries the label and the score of the mock pass.
Thm_C20 ==
    WithoutBackend =>
        /\ response.status \in {0, 200}
        /\ pc = "done" =>
              /\ response.status = 200
              /\ "reliability_score" \in DOMAIN response
              /\ response.reliability_score = reliabilityScore
              /\ response.reliability_label = reliabilityLabel
              /\ reliabilityLabel \in {"RELIABLE", "NOT RELIABLE"}

\* the backend was configured and refused the connection; the mock pass ran
\* on the 50 frames of the default 10 MB at fps = 5 and was answered
Wit_C20 ==
    /\ pc = "done"
    /\ WithoutBackend
    /\ request.backendUrl
    /\ Len(frames) = 50
    /\ response.status = 200
    /\ response.reliability_score = reliabilityScore

-----------------------------------------------------------------------------
(* The drawn ROI *)

MinOf(S) == CHOOSE m \in S : \A e \in S : m <= e

MaxOf(S) == CHOOSE m \in S : \A e \in S : m >= e

ClickedXs == {roiPoints[k].x : k \in 1..Len(roiPoints)}

ClickedYs == {roiPoints[k].y : k \in 1..Len(roiPoints)}

RoiDrawn == pc = "upload" /\ Len(roiPoints) = 4

\* C21: the roi uploaded for four clicked points is [min x, min y, max x,
\* max y] of the points, has x1 <= x2 and y1 <= y2, and contains each point,
\* in whatever order the points were clicked
Thm_C21 ==
    RoiDrawn =>
        /\ roi = <<MinOf(ClickedXs), MinOf(ClickedYs), MaxOf(ClickedXs), MaxOf(ClickedYs)>>
        /\ roi[1] <= roi[3] /\ roi[2] <= roi[4]
        /\ \A k \in 1..4 :
              /\ roi[1] <= roiPoints[k].x /\ roiPoints[k].x <= roi[3]
              /\ roi[2] <= roiPoints[k].y /\ roiPoints[k].y <= roi[4]
        /\ request.roiParam = "roi"

\* four points clicked right to left and bottom to top, then uploaded
Wit_C21 ==
    /\ RoiDrawn
    /\ roiPoints[1].x > roiPoints[4].x
    /\ roiPoints[1].y > roiPoints[4].y
    /\ roiPoints[2].x < roiPoints[4].x
    /\ roi[1] < roi[3] /\ roi[2] < roi[4]

-----------------------------------------------------------------------------
(* Two passes at once *)

\* the occlusion series of the frames of the running invocation
SeriesAlone == [k \in 1..Len(frames) |-> OcclusionPct(frames[k].personBoxes, roi)]

\* the response the pass gives for the frames when nothing else runs
ResponseAlone ==
    LET dwell == Seconds(LongestRun(SeriesAlone, 10))
        score == ReliabilityScore(MaxSeq(SeriesAlone), dwell, Mean(BlurScores(frames)))
    IN  [status |-> 200,
         reliability_label |-> ReliabilityLabel(score),
         reliability_score |-> score,
         signals |-> [occlusion_pct_avg |-> Round1(Mean(SeriesAlone)),
                      occlusion_pct_max |-> Round1(MaxSeq(SeriesAlone)),
                      dwell_s_max |-> Round1(dwell),
                      blur_score_avg |-> MathRound(Mean(BlurScores(frames))),
                      redundancy |-> 0],
         timestamps |->
             [flip_at_s |-> Round1(PolicyTrip(Num(30), <<1, 2>>, Num(2), TRUE)),
              standard_ai_alert_at_s |-> Round1(PolicyTrip(Num(60), Num(2), Num(4), FALSE))],
         debug |-> [sampled_frames |-> Len(frames), fps_used |-> fps, roi |-> roi]]

\* C22: of two passes interleaved step by step in any way, each ends with
\* the response it gives when it runs alone: the occlusion series, the dwell,
\* both trip times and the score of an invocation are those of its own frames
Thm_C22 ==
    pc = "done" =>
        /\ occlusionPcts = SeriesAlone
        /\ response = ResponseAlone

\* a pass has ended without a trip while the other one waits in the middle
\* of its standard loop, its dwell accumulator above zero
Wit_C22 ==
    /\ pc = "done"
    /\ response.timestamps.flip_at_s = Zero
    /\ response.signals.dwell_s_max = Num(2)
    /\ suspended.pc = "standard"
    /\ suspended.i > 0
    /\ RGt(suspended.cumulativeDwell, Num(2))

-----------------------------------------------------------------------------
(* The greedy merge *)

\* the parts of the boxes inside the ROI, those of positive area, in list order
ClippedParts(boxes, r) ==
    LET kept == SelectSeq(boxes, LAMBDA b : MeetsRoi(b, r))
    IN  [k \in 1..Len(kept) |->
            Box(IMax(kept[k].x1, r[1]), IMax(kept[k].y1, r[2]),
                IMin(kept[k].x2, r[3]), IMin(kept[k].y2, r[4]))]

\* the closed rectangles share a point: an interior, an edge or a corner
Touches(a, b) ==
    /\ IMax(a.x1, b.x1) <= IMin(a.x2, b.x2)
    /\ IMax(a.y1, b.y1) <= IMin(a.y2, b.y2)

\* the closed rectangles share an interior
ShareInterior(a, b) ==
    /\ IMax(a.x1, b.x1) < IMin(a.x2, b.x2)
    /\ IMax(a.y1, b.y1) < IMin(a.y2, b.y2)

BoundingBox(a, b) ==
    Box(IMin(a.x1, b.x1), IMin(a.y1, b.y1), IMax(a.x2, b.x2), IMax(a.y2, b.y2))

\* groups after part x: the first group x touches becomes the bounding box of
\* both, every other group stays as it is; x opens a group when it touches none
Folded(groups, x) ==
    IF \A g \in 1..Len(groups) : ~Touches(x, groups[g])
    THEN groups \o <<x>>
    ELSE [g \in 1..Len(groups) |->
            IF Touches(x, groups[g]) /\ \A h \in 1..(g - 1) : ~Touches(x, groups[h])
            THEN BoundingBox(groups[g], x)
            ELSE groups[g]]

\* the groups of a list of parts, folded in list order
GreedyGroups(parts) ==
    LET G[j \in 0..Len(parts)] == IF j = 0 THEN <<>> ELSE Folded(G[j - 1], parts[j])
    IN  G[Len(parts)]

GroupsArea(groups) ==
    LET A[j \in 0..Len(groups)] ==
            IF j = 0 THEN 0 ELSE A[j - 1] + BoxArea(groups[j])
    IN  A[Len(groups)]

\* the groups of the frame of the geometry specification
FrameGroups == GreedyGroups(ClippedParts(frames[1].personBoxes, roi))

PairwiseApart(parts) ==
    \A a, b \in 1..Len(parts) : a # b => ~Touches(parts[a], parts[b])

\* C25: for a ROI of positive area the occlusion reported for a frame is
\* never below the exact share of the ROI that the boxes cover, and equals
\* it when the frame has at most one box or the parts of its boxes inside the
\* ROI do not touch one another
Thm_C25 ==
    (Len(occlusionPcts) = 1 /\ RoiArea(roi) > 0) =>
        LET boxes == frames[1].personBoxes
            exact == MathMin(Num(100), ExactPct(boxes, roi))
        IN  /\ RGeq(occlusionPcts[1], exact)
            /\ (Len(boxes) <= 1 \/ PairwiseApart(ClippedParts(boxes, roi)))
                  => occlusionPcts[1] = exact

\* three boxes whose parts inside the ROI overlap: the reported occlusion
\* exceeds the exact cover, which is above zero, and stays below 100
Wit_C25 ==
    /\ Len(occlusionPcts) = 1
    /\ RoiArea(roi) > 0
    /\ Len(frames[1].personBoxes) = 3
    /\ ~PairwiseApart(ClippedParts(frames[1].personBoxes, roi))
    /\ RGt(ExactPct(frames[1].personBoxes, roi), Zero)
    /\ RGt(occlusionPcts[1], ExactPct(frames[1].personBoxes, roi))
    /\ RLt(occlusionPcts[1], Num(100))

\* the box lists that hold the same boxes in another order
Reorderings(boxes) ==
    { [k \in 1..Len(boxes) |-> boxes[p[k]]] : p \in Permutations(1..Len(boxes)) }

\* C26 (as claimed): the occlusion of a frame is the same for every order of
\* its box list.
CE_C26 ==
    Len(occlusionPcts) = 1 =>
        \A other \in Reorderings(frames[1].personBoxes) :
            OcclusionPct(other, roi) = occlusionPcts[1]

-----------------------------------------------------------------------------
(* Debounce and reset of the alert loops *)

\* seconds of the unbroken run of frames above th that ends at frame k
RunSeconds(k, th) == Seconds(RunLength(occlusionPcts, k, th))

\* one iteration of an alert loop over frame k = i + 1: sustain and dwell are
\* the accumulators after it, fired says that it set the trip time, th and
\* minSustain are the loop's constants, dwellRule its dwell rule at frame k
LoopStepDebounced(k, sustain, dwell, fired, th, minSustain, dwellRule) ==
    /\ ~Above(occlusionPcts, k, th) => sustain = Zero
    /\ ~Above(occlusionPcts, k, 10) => dwell = Zero
    /\ sustain = RunSeconds(k, th)
    /\ dwell = RunSeconds(k, 10)
    /\ (fired /\ ~dwellRule) =>
          /\ RGeq(RunSeconds(k, th), minSustain)
          /\ \A j \in (k - RunLength(occlusionPcts, k, th) + 1)..k :
                Above(occlusionPcts, j, th)

\* (the step of the last early frame also holds the cumulativeDwell = 0 that
\* precedes the standard loop, so the early dwell accumulator is read on the
\* other frames)
C24Step ==
    /\ pc = "early" =>
          LoopStepDebounced(i + 1, occlusion30Duration',
                            IF pc' = "early" THEN cumulativeDwell'
                            ELSE RunSeconds(i + 1, 10),
                            flipAtS' # flipAtS \/ alertFrameIndex' # alertFrameIndex,
                            30, <<1, 2>>, RGt(RunSeconds(i + 1, 10), Num(2)))
    /\ pc = "standard" =>
          LoopStepDebounced(i + 1, occlusion60Duration', cumulativeDwell',
                            standardAiAlertAtS' # standardAiAlertAtS,
                            60, Num(2), RGeq(RunSeconds(i + 1, 10), Num(4)))

\* C24: in both alert loops, after every frame the sustain accumulator is
\* the duration of the unbroken run of frames above the loop's threshold
\* that ends there and the dwell accumulator that of the run above 10, so a
\* frame at or below the threshold (or 10) puts it back to 0, also after the
\* policy has fired; a frame sets the trip time by the sustain rule only at
\* the end of a run above the threshold that lasts minSustain or longer
Thm_C24 == [][C24Step]_vars

\* the standard loop has fired on a run above 60 and a later frame at or
\* below 10 has put both accumulators back to 0
Wit_C24 ==
    /\ pc = "standard"
    /\ i >= 3
    /\ standardAiAlertAtS # Zero
    /\ RLt(standardAiAlertAtS, frames[i].timestamp)
    /\ ~Above(occlusionPcts, i, 10)
    /\ Above(occlusionPcts, i - 1, 60)
    /\ occlusion60Duration = Zero
    /\ cumulativeDwell = Zero
    /\ RLt(dwellSMax, Num(4))

-----------------------------------------------------------------------------
(* The accumulators of the alert loops and of the dwell tracker *)

RECURSIVE TrackerRun(_)
\* currentDwell of the dwell tracker after frame k
TrackerRun(k) ==
    IF k = 0 THEN Zero
    ELSE IF DwellOccluded(occlusionPcts[k])
         THEN Accumulate(TrackerRun(k - 1), fps)
         ELSE DwellElse(TrackerRun(k - 1))

\* in both alert loops the sustain accumulator is at most the dwell
\* accumulator, which is the tracker's run at the same frame (the dwell
\* accumulator of the last early frame is cleared within the same step)
AccumulatorsAgree ==
    /\ (pc = "early" /\ i >= 1) =>
          /\ RLeq(occlusion30Duration, cumulativeDwell)
          /\ cumulativeDwell = TrackerRun(i)
    /\ (pc = "standard" /\ i = 0) =>
          RLeq(occlusion30Duration, TrackerRun(Len(occlusionPcts)))
    /\ (pc = "standard" /\ i >= 1) =>
          /\ RLeq(occlusion60Duration, cumulativeDwell)
          /\ cumulativeDwell = TrackerRun(i)
    /\ PassOver =>
          /\ RLeq(occlusion60Duration, cumulativeDwell)
          /\ cumulativeDwell = TrackerRun(Len(occlusionPcts))
          /\ cumulativeDwell = currentDwell

\* a trip time other than 0 in the variables of the pass
TrippedInternally == flipAtS # Zero \/ standardAiAlertAtS # Zero

\* a trip time other than 0 in the response
TrippedReported ==
    \/ response.timestamps.flip_at_s # Zero
    \/ response.timestamps.standard_ai_alert_at_s # Zero

\* C27 (as claimed): the accumulators agree, hence a response with a nonzero
\* trip time reports occlusion_pct_max > 10 and dwell_s_max > 0.
CE_C27 ==
    /\ AccumulatorsAgree
    /\ (pc = "done" /\ TrippedReported) =>
          /\ RGt(response.signals.occlusion_pct_max, Num(10))
          /\ RGt(response.signals.dwell_s_max, Zero)

\* C27 (amended): the accumulators agree, hence a nonzero trip time implies
\* that the maximum occlusion of the pass is above 10 and its longest dwell
\* above 0; the response, which rounds to one decimal, then reports
\* occlusion_pct_max >= 10 and dwell_s_max > 0.
Thm_C27 ==
    /\ AccumulatorsAgree
    /\ (PassOver /\ TrippedInternally) =>
          /\ RGt(occlusionPctMax, Num(10))
          /\ RGt(dwellSMax, Zero)
    /\ (pc = "done" /\ TrippedReported) =>
          /\ RGeq(response.signals.occlusion_pct_max, Num(10))
          /\ RGt(response.signals.dwell_s_max, Zero)

\* a pass over frames occluded by 10.04 percent at most has tripped the early
\* policy by its dwell rule; the response reports occlusion_pct_max = 10
Wit_C27 ==
    /\ pc = "done"
    /\ response.timestamps.flip_at_s = Num(2)
    /\ response.timestamps.standard_ai_alert_at_s = Zero
    /\ occlusionPctMax = <<251, 25>>
    /\ response.signals.occlusion_pct_max = Num(10)
    /\ response.signals.dwell_s_max = Num(3)

-----------------------------------------------------------------------------
(* The standard loop after the early loop *)

\* the standard trip time of the occlusion series when the standard loop
\* starts from cleared accumulators
StandardAlone == PolicyTrip(Num(60), Num(2), Num(4), FALSE)

\* C28: the standard loop starts with cumulativeDwell = 0 whatever the early
\* loop left there, and its trip time is the one the standard loop gives on
\* the occlusion series by itself
Thm_C28 ==
    /\ (pc = "standard" /\ i = 0) =>
          /\ cumulativeDwell = Zero
          /\ occlusion60Duration = Zero
          /\ standardAiAlertAtS = Zero
    /\ PassOver => standardAiAlertAtS = StandardAlone

\* the early loop ended on a dwell of the whole clip and tripped; the frames
\* are at or below 60 and the standard loop, done, tripped on its fourth frame
Wit_C28 ==
    /\ pc = "score"
    /\ TrackerRun(Len(occlusionPcts)) = Num(Len(occlusionPcts))
    /\ flipAtS = Num(2)
    /\ RLeq(occlusionPctMax, Num(60))
    /\ standardAiAlertAtS = Num(3)

-----------------------------------------------------------------------------
(* The two copies of the route *)

\* C29: for a maximum occlusion in [0, 100], a dwell >= 0 and a blur average
\* >= 0 the score and the label of the route are those of its older copy,
\* whose blur term is max(0, 1 - blurAvg / 3000)
Thm_C29 ==
    (/\ pc \in {"respond", "done"}
     /\ RLeq(Zero, occlusionPctMax) /\ RLeq(occlusionPctMax, Num(100))
     /\ RGeq(dwellSMax, Zero)
     /\ RGeq(blurScoreAvg, Zero)) =>
        /\ BlurTerm(blurScoreAvg) = BlurTermOlder(blurScoreAvg)
        /\ reliabilityScore = ReliabilityScoreOlder(occlusionPctMax, dwellSMax, blurScoreAvg)
        /\ reliabilityLabel = ReliabilityLabelOlder(reliabilityScore)

\* a verdict on a blur average above 3000, where the older copy clamps at 0
\* and the newer one caps the normalized blur at 1; the score is neither 0
\* nor 100
Wit_C29 ==
    /\ pc = "done"
    /\ RGt(blurScoreAvg, Num(3000))
    /\ RGt(occlusionPctMax, Zero)
    /\ RGt(dwellSMax, Zero)
    /\ reliabilityScore > 0
    /\ reliabilityScore < 70
    /\ response.reliability_label = "NOT RELIABLE"

-----------------------------------------------------------------------------
(* The backend's errors and the mock branch *)

\* the handler is in its mock branch or has answered from it
InMock ==
    \/ pc \in {"parse", "sample", "empty", "occlusion", "dwell", "early",
               "standard", "score", "respond"}
    \/ pc = "done" /\ "reliability_score" \in DOMAIN response

\* the backend has answered with a status that is not OK
AnsweredNotOk == request.backendUrl /\ request.backend \in {"error", "error_unread"}

\* the handler has answered with the backend's status, from the proxy branch
ErrorPassedOn ==
    /\ pc = "done"
    /\ response.status = request.backendStatus
    /\ "error" \in DOMAIN response
    /\ ~InMock
    /\ frames = <<>>

\* C30 (as claimed): a configured backend that answers with a non-OK status
\* is answered with that status and without mock processing; the mock branch
\* is reached only with no backend configured or after the proxied request
\* threw something other than the abort of the timer, which is answered 504.
CE_C30 ==
    /\ AnsweredNotOk => ErrorPassedOn
    /\ InMock => (~request.backendUrl \/ Rethrown(request.backend))
    /\ request.backend = "timeout" => (pc = "done" /\ response.status = 504)

\* C30 (amended): a configured backend that answers with a non-OK status and
\* whose error body the handler reads is answered with that status and
\* without mock processing; when reading the error body fails, the failure
\* is thrown like any other and the mock branch answers.  The mock branch is
\* reached only with no backend configured or after the proxied request
\* threw something other than the abort of the timer, which is answered 504.
Thm_C30 ==
    /\ (request.backendUrl /\ request.backend = "error") => ErrorPassedOn
    /\ (request.backendUrl /\ request.backend = "error_unread") => InMock
    /\ InMock => (~request.backendUrl \/ Rethrown(request.backend))
    /\ request.backend = "timeout" => (pc = "done" /\ response.status = 504)

\* the backend answered 422 to a request with a video and a well-formed form,
\* and the handler answered 422
Wit_C30 ==
    /\ pc = "done"
    /\ request.backend = "error"
    /\ request.backendStatus = 422
    /\ response.status = 422
    /\ request.fpsParam = "1"
    /\ reliabilityLabel = ""

====
